---- MODULE Spec2Model ----
(***************************************************************************)
(* A model of fensql (src/fensql.c, src/input_buffer.h): the row codec     *)
(* (serialize_row / deserialize_row over the fixed Row layout), the        *)
(* declared Table, and the read-prepare-execute loop of main.              *)
(*                                                                         *)
(* Text is modelled as sequences of character codes (ASCII), so that the   *)
(* string functions of the C library (strcmp, strncmp, sscanf, getline)    *)
(* are computed as they compute.  A C string in a buffer is the sequence   *)
(* of its characters without the terminating NUL; a fixed-width field of   *)
(* a Row is the sequence of all of its bytes.                              *)
(***************************************************************************)
EXTENDS Integers, Sequences, FiniteSets, TLC

\* ------------------------------------------------------------------------
\* Bounds of the model (not program constants).
\* ------------------------------------------------------------------------

\* Lines the REPL reads before its input ends.
MaxLines == 2

\* Length of the text prefixes of the rows given to the codec.
MaxPrefix == 1

\* ------------------------------------------------------------------------
\* Defines and constants (fensql.c 36-55).
\* ------------------------------------------------------------------------

COLUMN_USERNAME_SIZE == 32

COLUMN_EMAIL_SIZE == 255

TABLE_MAX_PAGES == 100

PAGE_SIZE == 4096

\* sizeof(uint32_t): size_of_attribute(Row, id).
ID_SIZE == 4

USERNAME_SIZE == COLUMN_USERNAME_SIZE

EMAIL_SIZE == COLUMN_EMAIL_SIZE

ID_OFFSET == 0

USERNAME_OFFSET == ID_OFFSET + ID_SIZE

EMAIL_OFFSET == USERNAME_OFFSET + USERNAME_SIZE

\* A row size that forgets the last column.
ROW_SIZE_NoEmail == ID_SIZE + USERNAME_SIZE

ROW_SIZE == ID_SIZE + USERNAME_SIZE + EMAIL_SIZE

ROWS_PER_PAGE == PAGE_SIZE \div ROW_SIZE

TABLE_MAX_ROWS == ROWS_PER_PAGE * TABLE_MAX_PAGES

\* The terminating character of a C string.
NUL == 0

\* ------------------------------------------------------------------------
\* Memory helpers.
\* ------------------------------------------------------------------------

\* n bytes, all equal to b.
Fill(b, n) == [i \in 1..n |-> b]

\* memcpy(dst + off, src, n): dst with its bytes off .. off+n-1 (counted
\* from 0) replaced by the first n bytes of src.
memcpy(dst, off, src, n) ==
    [i \in 1..Len(dst) |->
        IF i - 1 >= off /\ i - 1 < off + n THEN src[i - off] ELSE dst[i]]

\* The n bytes of src from offset off (counted from 0).
Bytes(src, off, n) == [i \in 1..n |-> src[off + i]]

\* The object representation of the int v stored in a uint32_t: its value
\* modulo 2^32, least significant byte first (as on x86).  A uint32_t is kept
\* as these ID_SIZE bytes, which is what memcpy copies.
U32(v) == [i \in 1..ID_SIZE |-> (v \div (256 ^ (i - 1))) % 256]

\* ------------------------------------------------------------------------
\* Row codec (fensql.c 65-75).
\* ------------------------------------------------------------------------

serialize_row(source, destination) ==
    LET d1 == memcpy(destination, ID_OFFSET, source.id, ID_SIZE)
        d2 == memcpy(d1, USERNAME_OFFSET, source.username, USERNAME_SIZE)
    IN  memcpy(d2, EMAIL_OFFSET, source.email, EMAIL_SIZE)

\* A deserializer that reads the email from where the username starts.
deserialize_row_WrongOffset(source, destination) ==
    [id       |-> memcpy(destination.id, 0, Bytes(source, ID_OFFSET, ID_SIZE), ID_SIZE),
     username |-> memcpy(destination.username, 0,
                         Bytes(source, USERNAME_OFFSET, USERNAME_SIZE), USERNAME_SIZE),
     email    |-> memcpy(destination.email, 0,
                         Bytes(source, USERNAME_OFFSET, EMAIL_SIZE), EMAIL_SIZE)]

deserialize_row(source, destination) ==
    [id       |-> memcpy(destination.id, 0, Bytes(source, ID_OFFSET, ID_SIZE), ID_SIZE),
     username |-> memcpy(destination.username, 0,
                         Bytes(source, USERNAME_OFFSET, USERNAME_SIZE), USERNAME_SIZE),
     email    |-> memcpy(destination.email, 0,
                         Bytes(source, EMAIL_OFFSET, EMAIL_SIZE), EMAIL_SIZE)]

\* ------------------------------------------------------------------------
\* Character codes and the C library's string functions.
\* ------------------------------------------------------------------------

\* '.', the first character of a meta-command (fensql.c 195).
Dot == 46

\* '\n', the line terminator getline keeps at the end of a line.
Newline == 10

\* The keywords and the meta-command the program compares against.
INSERT_KW == <<105, 110, 115, 101, 114, 116>>

SELECT_KW == <<115, 101, 108, 101, 99, 116>>

EXIT_CMD == <<46, 101, 120, 105, 116>>

\* isspace, as sscanf uses it: space, \t, \n, \v, \f, \r.
IsSpace(c) == c \in {32, 9, 10, 11, 12, 13}

IsDigit(c) == c \in 48..57

\* buffer[0]: the first character of a C string, NUL when it is empty.
FirstChar(s) == IF Len(s) = 0 THEN NUL ELSE s[1]

\* strcmp(s, t) == 0.
StrEq(s, t) == s = t

\* strncmp(s, t, n) == 0, for a t of n characters.
StrnEq(s, t, n) == Len(s) >= n /\ SubSeq(s, 1, n) = SubSeq(t, 1, n)

\* The first position from i on that holds no white space (Len(s) + 1: none).
SkipSpace(s, i) ==
    CHOOSE j \in i..(Len(s) + 1) :
        /\ j = Len(s) + 1 \/ ~IsSpace(s[j])
        /\ \A k \in i..(j - 1) : IsSpace(s[k])

\* The first position from i on that holds white space or ends the string.
WordEnd(s, i) ==
    CHOOSE j \in i..(Len(s) + 1) :
        /\ j = Len(s) + 1 \/ IsSpace(s[j])
        /\ \A k \in i..(j - 1) : ~IsSpace(s[k])

\* The first position from i on that holds no digit.
DigitsEnd(s, i) ==
    CHOOSE j \in i..(Len(s) + 1) :
        /\ j = Len(s) + 1 \/ ~IsDigit(s[j])
        /\ \A k \in i..(j - 1) : IsDigit(s[k])

\* The number written by the digits s[i] .. s[j-1].
RECURSIVE DecValue(_, _, _)
DecValue(s, i, j) ==
    IF j <= i THEN 0 ELSE 10 * DecValue(s, i, j - 1) + (s[j - 1] - 48)

\* The %d conversion at position i: white space, an optional sign, digits.
\* The int is stored through a pointer to uint32_t.
ScanInt(s, i) ==
    LET p      == SkipSpace(s, i)
        signed == p <= Len(s) /\ s[p] \in {43, 45}
        q      == IF signed THEN p + 1 ELSE p
        e      == DigitsEnd(s, q)
        v      == DecValue(s, q, e)
    IN  [ok    |-> e > q,
         next  |-> e,
         value |-> U32(IF signed /\ s[p] = 45 THEN 0 - v ELSE v)]

\* The %s conversion at position i: white space, then a run of other characters.
ScanWord(s, i) ==
    LET p == SkipSpace(s, i)
        e == WordEnd(s, p)
    IN  [ok |-> e > p, next |-> e, text |-> SubSeq(s, p, e - 1)]

\* sscanf(buffer, "insert %d %s %s", ...) on a buffer that starts with
\* "insert": the number of arguments assigned (0 also stands for EOF, which
\* the caller does not tell apart) and the values converted.
ScanInsert(buffer) ==
    LET d == ScanInt(buffer, Len(INSERT_KW) + 1)
        u == ScanWord(buffer, d.next)
        e == ScanWord(buffer, u.next)
    IN  IF ~d.ok THEN [assigned |-> 0, id |-> U32(0), username |-> <<>>, email |-> <<>>]
        ELSE IF ~u.ok THEN [assigned |-> 1, id |-> d.value, username |-> <<>>, email |-> <<>>]
        ELSE IF ~e.ok THEN [assigned |-> 2, id |-> d.value, username |-> u.text, email |-> <<>>]
        ELSE [assigned |-> 3, id |-> d.value, username |-> u.text, email |-> e.text]

\* The bytes text writes as a C string: its characters and the NUL.
CString(text) == text \o <<NUL>>

\* A char array after bytes were stored from its start; what does not fit is
\* not in the array.
Stored(field, bytes) ==
    [i \in 1..Len(field) |-> IF i <= Len(bytes) THEN bytes[i] ELSE field[i]]

\* The bytes that do not fit in an array of n bytes.
Spill(bytes, n) == IF Len(bytes) > n THEN SubSeq(bytes, n + 1, Len(bytes)) ELSE <<>>

\* ------------------------------------------------------------------------
\* State.
\* ------------------------------------------------------------------------

VARIABLES
    input_buffer,    \* InputBuffer: buffer (the C string it holds), input_length
    stdin_line,      \* the bytes the last getline delivered, "\n" included if any
    stdin_eof,       \* the input has ended: getline reads nothing more
    lines_read,      \* getline calls that delivered a line
    statement,       \* main's Statement: type, row_to_insert
    prepare_result,  \* what prepare_statement returned in this iteration
    table,           \* Table: num_rows, pages
    out,             \* what was printed, one record per printf
    executed,        \* the statements execute_statement was called with
    pc,              \* where main is: "read", "dispatch", "execute", "exited"
    exit_status,     \* how the process ended
    c_pc,            \* codec: "idle", "row", "serialized", "deserialized"
    c_source,        \* codec: the Row given to serialize_row
    c_page,          \* codec: the ROW_SIZE bytes serialize_row writes
    c_dest           \* codec: the Row deserialize_row fills

vars == <<input_buffer, stdin_line, stdin_eof, lines_read, statement,
          prepare_result, table, out, executed, pc, exit_status,
          c_pc, c_source, c_page, c_dest>>

repl_vars == <<input_buffer, stdin_line, stdin_eof, lines_read, statement,
               prepare_result, table, out, executed, pc, exit_status>>

codec_vars == <<c_pc, c_source, c_page, c_dest>>

\* ------------------------------------------------------------------------
\* Row, Table, Statement (fensql.c 59-63, 79-82, 100-114).
\* ------------------------------------------------------------------------

\* A Row whose bytes all hold b (memory nothing has written yet).
RawRow(b) ==
    [id       |-> Fill(b, ID_SIZE),
     username |-> Fill(b, COLUMN_USERNAME_SIZE),
     email    |-> Fill(b, COLUMN_EMAIL_SIZE)]

\* The table as declared: no rows, every page pointer null.
EmptyTable ==
    [num_rows |-> 0, pages |-> [p \in 0..(TABLE_MAX_PAGES - 1) |-> "NULL"]]

\* One printf.
Msg(text, arg) == [text |-> text, arg |-> arg]

\* ------------------------------------------------------------------------
\* read_input (fensql.c 174-184).
\* ------------------------------------------------------------------------

\* getline delivered the bytes raw (bytes_read = Len(raw) > 0): input_length
\* is bytes_read - 1 and the byte at bytes_read - 1 is overwritten by NUL.
read_input(raw) ==
    [buffer       |-> SubSeq(raw, 1, Len(raw) - 1),
     input_length |-> Len(raw) - 1]

\* ------------------------------------------------------------------------
\* execute_meta_command (fensql.c 91-97).
\* ------------------------------------------------------------------------

\* A comparison of the first five characters only.
execute_meta_command_Prefix(buffer) ==
    IF StrnEq(buffer, EXIT_CMD, 5) THEN "exit(EXIT_SUCCESS)"
    ELSE "META_COMMAND_UNRECOGNIZED_COMMAND"

execute_meta_command(buffer) ==
    IF StrEq(buffer, EXIT_CMD) THEN "exit(EXIT_SUCCESS)"
    ELSE "META_COMMAND_UNRECOGNIZED_COMMAND"

\* ------------------------------------------------------------------------
\* prepare_statement (fensql.c 116-141).
\* ------------------------------------------------------------------------

\* What sscanf stores in the row: the id, then the username as a C string
\* from the start of username, then the email as a C string from the start
\* of email.  username is followed in the Row by email, so the bytes of the
\* username that do not fit in username land in email before the email is
\* stored; overrun says that bytes were written past the end of email, which
\* is past the Row.
StoreInsertArgs(row, scan) ==
    LET ubytes == CString(scan.username)
        ebytes == CString(scan.email)
        uspill == Spill(ubytes, COLUMN_USERNAME_SIZE)
        row1   == IF scan.assigned >= 1 THEN [row EXCEPT !.id = scan.id] ELSE row
        row2   == IF scan.assigned >= 2
                  THEN [row1 EXCEPT !.username = Stored(@, ubytes),
                                    !.email = Stored(@, uspill)]
                  ELSE row1
        row3   == IF scan.assigned >= 3
                  THEN [row2 EXCEPT !.email = Stored(@, ebytes)]
                  ELSE row2
    IN  [row     |-> row3,
         overrun |-> \/ scan.assigned >= 2 /\ Len(uspill) > COLUMN_EMAIL_SIZE
                     \/ scan.assigned >= 3 /\ Len(ebytes) > COLUMN_EMAIL_SIZE]

\* The result, the statement as prepare_statement leaves it, and whether it
\* wrote past the statement's row.
prepare_statement(buffer, st) ==
    IF StrnEq(buffer, INSERT_KW, 6)
    THEN LET scan  == ScanInsert(buffer)
             store == StoreInsertArgs(st.row_to_insert, scan)
         IN  [result    |-> IF scan.assigned < 3 THEN "PREPARE_SYNTAX_ERROR"
                            ELSE "PREPARE_SUCCESS",
              statement |-> [type |-> "STATEMENT_INSERT", row_to_insert |-> store.row],
              overrun   |-> store.overrun]
    ELSE IF StrEq(buffer, SELECT_KW)
    THEN [result    |-> "PREPARE_SUCCESS",
          statement |-> [st EXCEPT !.type = "STATEMENT_SELECT"],
          overrun   |-> FALSE]
    ELSE [result    |-> "PREPARE_UNRECOGNIZED_STATEMENT",
          statement |-> st,
          overrun   |-> FALSE]

\* ------------------------------------------------------------------------
\* execute_statement (fensql.c 143-152).
\* ------------------------------------------------------------------------

\* An executor that counts the row of an insert in the table.
execute_statement_Stores(st, tbl) ==
    [printed   |-> IF st.type = "STATEMENT_INSERT"
                   THEN <<Msg("Insert statement called here.", <<>>)>>
                   ELSE <<Msg("Select statement called here.", <<>>)>>,
     statement |-> st,
     table     |-> IF st.type = "STATEMENT_INSERT"
                   THEN [tbl EXCEPT !.num_rows = @ + 1]
                   ELSE tbl]

\* What it prints, and the statement and the table as it leaves them.
execute_statement(st, tbl) ==
    [printed   |-> CASE st.type = "STATEMENT_INSERT" ->
                            <<Msg("Insert statement called here.", <<>>)>>
                     [] st.type = "STATEMENT_SELECT" ->
                            <<Msg("Select statement called here.", <<>>)>>
                     [] OTHER -> <<>>,
     statement |-> st,
     table     |-> tbl]

\* ------------------------------------------------------------------------
\* main (fensql.c 188-221).
\* ------------------------------------------------------------------------

\* A switch whose last case lacks its continue.
prepare_switch_FallsThrough(result, buffer) ==
    CASE result = "PREPARE_SUCCESS" ->
            [printed |-> <<>>, goes |-> "execute"]
      [] result = "PREPARE_SYNTAX_ERROR" ->
            [printed |-> <<Msg("Syntax error detected for '%s'.", buffer)>>,
             goes    |-> "read"]
      [] result = "PREPARE_UNRECOGNIZED_STATEMENT" ->
            [printed |-> <<Msg("Unrecognized keyword at the start of '%s'.", buffer)>>,
             goes    |-> "execute"]

\* The switch on prepare_statement's result (207-216): break reaches the
\* call of execute_statement, continue goes back to the prompt.
prepare_switch(result, buffer) ==
    CASE result = "PREPARE_SUCCESS" ->
            [printed |-> <<>>, goes |-> "execute"]
      [] result = "PREPARE_SYNTAX_ERROR" ->
            [printed |-> <<Msg("Syntax error detected for '%s'.", buffer)>>,
             goes    |-> "read"]
      [] result = "PREPARE_UNRECOGNIZED_STATEMENT" ->
            [printed |-> <<Msg("Unrecognized keyword at the start of '%s'.", buffer)>>,
             goes    |-> "read"]

\* ------------------------------------------------------------------------
\* The lines given to the program.
\* ------------------------------------------------------------------------

Sp == <<32>>

InsertLine(id, username, email) ==
    INSERT_KW \o Sp \o id \o Sp \o username \o Sp \o email

\* Command texts: meta-commands, statements, malformed and oversized ones.
Texts ==
    { EXIT_CMD,                                            \* .exit
      <<46, 104, 101, 108, 112>>,                          \* .help
      EXIT_CMD \o <<33>>,                                  \* .exit!
      <<>>,                                                \* (empty)
      SELECT_KW,                                           \* select
      SELECT_KW \o <<32, 42>>,                             \* select *
      <<117, 112, 100, 97, 116, 101>>,                     \* update
      INSERT_KW,                                           \* insert
      INSERT_KW \o <<32, 49, 32, 97, 98>>,                 \* insert 1 ab
      InsertLine(<<49>>, <<97>>, <<98>>),                  \* insert 1 a b
      INSERT_KW \o <<49, 32, 97, 32, 98>>,                 \* insert1 a b
      InsertLine(<<45, 49>>, <<98>>, <<97>>),              \* insert -1 b a
      InsertLine(<<120>>, <<97>>, <<98>>),                 \* insert x a b
      InsertLine(<<50>>, Fill(117, COLUMN_USERNAME_SIZE), <<98>>),
      InsertLine(<<51>>, Fill(118, COLUMN_USERNAME_SIZE + 1), <<98, 98>>),
      InsertLine(<<52>>, <<97>>, Fill(101, COLUMN_EMAIL_SIZE - 1)),
      InsertLine(<<53>>, <<97>>, Fill(101, COLUMN_EMAIL_SIZE + 1)) }

\* Texts that also come as the last line of an input that ends without "\n".
UnterminatedTexts ==
    { <<Dot>>, EXIT_CMD, EXIT_CMD \o <<33>>, SELECT_KW, SELECT_KW \o <<33>> }

\* What getline can deliver.
InputLines ==
    {t \o <<Newline>> : t \in Texts} \cup UnterminatedTexts

\* ------------------------------------------------------------------------
\* The REPL as a state machine.
\* ------------------------------------------------------------------------

\* The values the codec's variables keep while the REPL runs.
CodecIdle ==
    /\ c_pc = "idle"
    /\ c_source = RawRow(NUL)
    /\ c_page = <<>>
    /\ c_dest = RawRow(NUL)

\* new_input_buffer (156-163), and main's locals before the first iteration:
\* statement is not initialized, its bytes hold what the stack held.
ReplInit(junk) ==
    /\ input_buffer = [buffer |-> <<>>, input_length |-> 0]
    /\ stdin_line = <<>>
    /\ stdin_eof = FALSE
    /\ lines_read = 0
    /\ statement = [type |-> IF junk = 0 THEN "STATEMENT_INSERT" ELSE "JUNK",
                    row_to_insert |-> RawRow(junk)]
    /\ prepare_result = "NONE"
    /\ table = EmptyTable
    /\ out = <<>>
    /\ executed = <<>>
    /\ pc = "read"
    /\ exit_status = "RUNNING"

Init ==
    /\ \E junk \in {0, 255} : ReplInit(junk)
    /\ CodecIdle

\* print_prompt, then read_input when getline delivers a line.
ReadInput ==
    /\ pc = "read"
    /\ ~stdin_eof
    /\ lines_read < MaxLines
    /\ \E raw \in InputLines :
        /\ stdin_line' = raw
        /\ stdin_eof' = (raw[Len(raw)] # Newline)
        /\ input_buffer' = read_input(raw)
    /\ lines_read' = lines_read + 1
    /\ prepare_result' = "NONE"
    /\ out' = Append(out, Msg("fensql> ", <<>>))
    /\ pc' = "dispatch"
    /\ UNCHANGED <<statement, table, executed, exit_status, codec_vars>>

\* print_prompt, then read_input when getline delivers nothing (end of
\* input or a read error): bytes_read <= 0.
ReadInputFails ==
    /\ pc = "read"
    /\ out' = out \o <<Msg("fensql> ", <<>>), Msg("Error reading input.", <<>>)>>
    /\ pc' = "exited"
    /\ exit_status' = "EXIT_FAILURE"
    /\ UNCHANGED <<input_buffer, stdin_line, stdin_eof, lines_read, statement,
                   prepare_result, table, executed, codec_vars>>

\* The branch of main for a buffer that starts with '.' (195-203).
MetaCommand ==
    /\ pc = "dispatch"
    /\ FirstChar(input_buffer.buffer) = Dot
    /\ IF execute_meta_command(input_buffer.buffer) = "exit(EXIT_SUCCESS)"
       THEN /\ pc' = "exited"
            /\ exit_status' = "EXIT_SUCCESS"
            /\ out' = out
       ELSE /\ pc' = "read"
            /\ exit_status' = exit_status
            /\ out' = Append(out, Msg("Unrecognized command '%s'", input_buffer.buffer))
    /\ UNCHANGED <<input_buffer, stdin_line, stdin_eof, lines_read, statement,
                   prepare_result, table, executed, codec_vars>>

\* The call of prepare_statement and the switch on its result (206-216).
\* A write past the statement's row is undefined: the process goes on with
\* what the row holds, or it is killed.
PrepareStatement ==
    /\ pc = "dispatch"
    /\ FirstChar(input_buffer.buffer) # Dot
    /\ LET p  == prepare_statement(input_buffer.buffer, statement)
           sw == prepare_switch(p.result, input_buffer.buffer)
       IN  /\ statement' = p.statement
           /\ \E killed \in (IF p.overrun THEN {FALSE, TRUE} ELSE {FALSE}) :
                IF killed
                THEN /\ pc' = "exited"
                     /\ exit_status' = "KILLED"
                     /\ prepare_result' = prepare_result
                     /\ out' = out
                ELSE /\ pc' = sw.goes
                     /\ exit_status' = exit_status
                     /\ prepare_result' = p.result
                     /\ out' = out \o sw.printed
    /\ UNCHANGED <<input_buffer, stdin_line, stdin_eof, lines_read, table,
                   executed, codec_vars>>

\* The call of execute_statement and the printf after it (218-219).
ExecuteStatement ==
    /\ pc = "execute"
    /\ LET x == execute_statement(statement, table)
       IN  /\ statement' = x.statement
           /\ table' = x.table
           /\ out' = out \o x.printed \o <<Msg("Executed statement.", <<>>)>>
    /\ executed' = Append(executed, statement)
    /\ pc' = "read"
    /\ UNCHANGED <<input_buffer, stdin_line, stdin_eof, lines_read,
                   prepare_result, exit_status, codec_vars>>

Next ==
    \/ ReadInput
    \/ ReadInputFails
    \/ MetaCommand
    \/ PrepareStatement
    \/ ExecuteStatement

Spec == Init /\ [][Next]_vars

\* ------------------------------------------------------------------------
\* The codec applied to rows.
\* ------------------------------------------------------------------------

\* Texts of at most n bytes over a letter and NUL.
RECURSIVE Prefixes(_)
Prefixes(n) ==
    IF n = 0 THEN {<<>>}
    ELSE Prefixes(n - 1) \cup
         {Append(t, c) : t \in {u \in Prefixes(n - 1) : Len(u) = n - 1}, c \in {97, NUL}}

\* Fields of n bytes: a short text, then the same byte up to the end.
Fields(n) ==
    {[i \in 1..n |-> IF i <= Len(t) THEN t[i] ELSE b] :
        t \in Prefixes(MaxPrefix), b \in {NUL, 255}}

CodecRows ==
    [id       : {U32(0), U32(1), U32(258), U32(16909060), U32(0 - 1)},
     username : Fields(COLUMN_USERNAME_SIZE),
     email    : Fields(COLUMN_EMAIL_SIZE)]

\* A row to encode, and a page slot and a destination row holding whatever
\* the memory held.
CodecInit ==
    /\ ReplInit(0)
    /\ c_pc = "row"
    /\ c_source \in CodecRows
    /\ \E junk \in {0, 255} :
        /\ c_page = Fill(junk, ROW_SIZE)
        /\ c_dest = RawRow(junk)

CodecSerialize ==
    /\ c_pc = "row"
    /\ c_page' = serialize_row(c_source, c_page)
    /\ c_pc' = "serialized"
    /\ UNCHANGED <<c_source, c_dest, repl_vars>>

CodecDeserialize ==
    /\ c_pc = "serialized"
    /\ c_dest' = deserialize_row(c_page, c_dest)
    /\ c_pc' = "deserialized"
    /\ UNCHANGED <<c_source, c_page, repl_vars>>

CodecNext ==
    \/ CodecSerialize
    \/ CodecDeserialize

CodecSpec == CodecInit /\ [][CodecNext]_vars

\* ------------------------------------------------------------------------
\* Vocabulary of the properties.
\* ------------------------------------------------------------------------

\* The last line read, without its line terminator.
LineText ==
    IF stdin_line # <<>> /\ stdin_line[Len(stdin_line)] = Newline
    THEN SubSeq(stdin_line, 1, Len(stdin_line) - 1)
    ELSE stdin_line

\* The position in out of the last prompt (0: none).
LastPrompt ==
    IF \E i \in 1..Len(out) : out[i].text = "fensql> "
    THEN CHOOSE i \in 1..Len(out) :
            /\ out[i].text = "fensql> "
            /\ \A j \in (i + 1)..Len(out) : out[j].text # "fensql> "
    ELSE 0

\* What the current iteration of the loop printed after its prompt.
IterOut == SubSeq(out, LastPrompt + 1, Len(out))

IsInsert(st) == st.type = "STATEMENT_INSERT"

\* The rows of the insert statements that were executed, in order.
InsertedRows ==
    LET ins == SelectSeq(executed, IsInsert)
    IN  [i \in 1..Len(ins) |-> ins[i].row_to_insert]

IsRowOutput(m) ==
    m.text \notin {"fensql> ", "Insert statement called here.",
                   "Select statement called here.", "Executed statement."}

\* What an executed select handed out besides the fixed messages.
YieldedRows ==
    LET rows == SelectSeq(IterOut, IsRowOutput)
    IN  [i \in 1..Len(rows) |-> rows[i].arg]

\* The buffer is an insert whose three arguments parse and whose username
\* or email is longer than its column.
Oversized(buffer) ==
    /\ StrnEq(buffer, INSERT_KW, 6)
    /\ ScanInsert(buffer).assigned = 3
    /\ \/ Len(ScanInsert(buffer).username) > COLUMN_USERNAME_SIZE
       \/ Len(ScanInsert(buffer).email) > COLUMN_EMAIL_SIZE

\* The field holds the first bytes of a text that is too long for it.
IsCut(field, text) ==
    Len(text) > Len(field) /\ field = SubSeq(text, 1, Len(field))

\* The row holds an oversized argument of the scan, cut to its column.
HoldsTruncated(row, scan) ==
    IsCut(row.username, scan.username) \/ IsCut(row.email, scan.email)

Min(a, b) == IF a < b THEN a ELSE b

\* ------------------------------------------------------------------------
\* Properties.
\* ------------------------------------------------------------------------

\* C1: deserialize_row applied to the bytes serialize_row wrote yields a row
\* equal to the source row in id, username and email, byte for byte.
C1_RoundTrip ==
    c_pc = "deserialized" =>
        /\ c_dest.id = c_source.id
        /\ c_dest.username = c_source.username
        /\ c_dest.email = c_source.email

\* C1 witness: a row with the largest id, a username without terminator and
\* an email with an embedded NUL went through both functions, into a
\* destination that held other bytes.
C1_Witness ==
    /\ c_pc = "deserialized"
    /\ c_source.id = U32(0 - 1)
    /\ c_source.username[COLUMN_USERNAME_SIZE] = 255
    /\ c_source.email[1] = NUL
    /\ c_source.email[COLUMN_EMAIL_SIZE] = 255
    /\ c_dest = c_source

\* C2: id at offset 0 with size 4, username at 4 with size 32, email at 36
\* with size 255, row size 291, 14 rows per page of 4096 bytes, 1400 rows in
\* 100 pages; the fields are contiguous and disjoint, a row fits in a page,
\* and a serialized row holds each field at its offset.
C2_Layout ==
    /\ ID_OFFSET = 0 /\ ID_SIZE = 4
    /\ USERNAME_OFFSET = 4 /\ USERNAME_SIZE = 32
    /\ EMAIL_OFFSET = 36 /\ EMAIL_SIZE = 255
    /\ ROW_SIZE = 291
    /\ PAGE_SIZE = 4096 /\ TABLE_MAX_PAGES = 100
    /\ ROWS_PER_PAGE = 14
    /\ TABLE_MAX_ROWS = 1400
    /\ ID_OFFSET + ID_SIZE = USERNAME_OFFSET
    /\ USERNAME_OFFSET + USERNAME_SIZE = EMAIL_OFFSET
    /\ EMAIL_OFFSET + EMAIL_SIZE = ROW_SIZE
    /\ ROW_SIZE <= PAGE_SIZE
    /\ ROWS_PER_PAGE * ROW_SIZE <= PAGE_SIZE
    /\ (ROWS_PER_PAGE + 1) * ROW_SIZE > PAGE_SIZE
    /\ c_pc \in {"serialized", "deserialized"} =>
        /\ Len(c_page) = 291
        /\ Bytes(c_page, 0, 4) = c_source.id
        /\ Bytes(c_page, 4, 32) = c_source.username
        /\ Bytes(c_page, 36, 255) = c_source.email

\* C2 witness: a serialized row whose three fields differ at their borders.
C2_Witness ==
    /\ c_pc = "serialized"
    /\ c_page[4] = 1 /\ c_page[5] = 97 /\ c_page[36] = 255
    /\ c_page[37] = NUL /\ c_page[291] = 255

\* C3: the row count is the number of inserts executed, up to the capacity
\* of 1400 rows, and never more than the capacity.
C3_CapacityInvariant ==
    /\ table.num_rows <= TABLE_MAX_ROWS
    /\ table.num_rows = Min(Len(InsertedRows), TABLE_MAX_ROWS)

\* C4: once an insert with an oversized username or email went through
\* prepare_statement, it was refused: not prepared with success, not
\* executed then or later, and its text is not in the row, truncated or not.
C4_OversizedRefused ==
    (pc # "dispatch" /\ Oversized(input_buffer.buffer)) =>
        /\ prepare_result # "PREPARE_SUCCESS"
        /\ pc # "execute"
        /\ ~HoldsTruncated(statement.row_to_insert, ScanInsert(input_buffer.buffer))
        /\ \A i \in 1..Len(InsertedRows) :
              ~HoldsTruncated(InsertedRows[i], ScanInsert(input_buffer.buffer))

\* C5: a select that was executed yielded exactly the rows of the inserts
\* executed before it, in their order.
C5_SelectYieldsInsertedRows ==
    (pc = "read" /\ prepare_result = "PREPARE_SUCCESS"
        /\ statement.type = "STATEMENT_SELECT") =>
        YieldedRows = InsertedRows

C7_ExecuteIsStub ==
    [][/\ pc = "execute" =>
            /\ table' = table
            /\ statement' = statement
            /\ \/ out' = out \o <<Msg("Insert statement called here.", <<>>),
                                  Msg("Executed statement.", <<>>)>>
               \/ out' = out \o <<Msg("Select statement called here.", <<>>),
                                  Msg("Executed statement.", <<>>)>>
       /\ table' = EmptyTable]_vars

\* C7 witness: an insert and then a select were executed, and the table is
\* as it was declared.
C7_Witness ==
    /\ pc = "read"
    /\ Len(executed) = 2
    /\ executed[1].type = "STATEMENT_INSERT"
    /\ executed[2].type = "STATEMENT_SELECT"
    /\ table = EmptyTable

\* C8: an iteration executes a statement and prints "Executed statement."
\* exactly if the line does not start with '.' and prepare_statement
\* returned PREPARE_SUCCESS, which it does only for an insert with three
\* arguments parsed or for the text "select"; a syntax error or an
\* unrecognized keyword prints its message and executes nothing.
C8_OnlyPreparedIsExecuted ==
    /\ pc = "execute" =>
        /\ prepare_result = "PREPARE_SUCCESS"
        /\ FirstChar(input_buffer.buffer) # Dot
    /\ prepare_result = "PREPARE_SUCCESS" =>
        \/ /\ StrnEq(input_buffer.buffer, INSERT_KW, 6)
           /\ ScanInsert(input_buffer.buffer).assigned = 3
           /\ statement.type = "STATEMENT_INSERT"
        \/ /\ StrEq(input_buffer.buffer, SELECT_KW)
           /\ statement.type = "STATEMENT_SELECT"
    /\ Len(executed) =
          Len(SelectSeq(out, LAMBDA m : m.text = "Executed statement."))
    /\ (pc = "read" /\ lines_read > 0) =>
        /\ (\E i \in 1..Len(IterOut) : IterOut[i].text = "Executed statement.")
              <=> /\ FirstChar(stdin_line) # Dot
                  /\ FirstChar(input_buffer.buffer) # Dot
                  /\ prepare_result = "PREPARE_SUCCESS"
        /\ prepare_result = "PREPARE_SUCCESS" =>
              /\ executed # <<>>
              /\ executed[Len(executed)] = statement
              /\ Len(IterOut) = 2
        /\ prepare_result = "PREPARE_SYNTAX_ERROR" =>
              IterOut = <<Msg("Syntax error detected for '%s'.", input_buffer.buffer)>>
        /\ prepare_result = "PREPARE_UNRECOGNIZED_STATEMENT" =>
              IterOut = <<Msg("Unrecognized keyword at the start of '%s'.",
                              input_buffer.buffer)>>

\* C8 witness: after a line with a syntax error that executed nothing, an
\* insert with three arguments was executed.
C8_Witness ==
    /\ pc = "read"
    /\ prepare_result = "PREPARE_SUCCESS"
    /\ Len(executed) = 1
    /\ executed[1].type = "STATEMENT_INSERT"
    /\ \E i \in 1..Len(out) : out[i].text = "Syntax error detected for '%s'."

\* C9: a line that starts with '.' is never prepared or executed; the line
\* .exit ends the process with success, any other such line prints
\* "Unrecognized command" and leaves the loop running.
C9_MetaDispatch ==
    (lines_read > 0 /\ pc # "dispatch" /\ FirstChar(LineText) = Dot) =>
        /\ prepare_result = "NONE"
        /\ pc # "execute"
        /\ StrEq(LineText, EXIT_CMD) =>
              /\ pc = "exited"
              /\ exit_status = "EXIT_SUCCESS"
        /\ ~StrEq(LineText, EXIT_CMD) =>
              /\ exit_status # "EXIT_SUCCESS"
              /\ pc = "read" =>
                    IterOut = <<Msg("Unrecognized command '%s'", LineText)>>

\* C10: the command text that is dispatched is the line without its line
\* terminator, and input_length is the length of that text.
C10_ReadStripsOnlyTerminator ==
    lines_read > 0 =>
        /\ input_buffer.buffer = LineText
        /\ input_buffer.input_length = Len(LineText)

====
